---- MODULE Spec2Model ----
(***************************************************************************)
(* License backend (server.py): the Stripe webhook handler, the license    *)
(* validation endpoint and the JSON file licenses.json they share.         *)
(*                                                                         *)
(* The file is the only shared state.  Each request runs in its own        *)
(* handler thread (Flask's development server, app.run, is threaded), and  *)
(* a handler touches the file in separate steps: load_licenses reads it,   *)
(* open(..., "w") truncates it, json.dump + close writes the new contents. *)
(* The steps of different handlers interleave freely in Spec; SeqSpec      *)
(* admits one request at a time.                                           *)
(***************************************************************************)
EXTENDS Integers, Sequences, FiniteSets, TLC

\* ------------------------------------------------------------------ bounds
NumThreads  == 2    \* handler threads
MaxRequests == 3    \* requests (webhook deliveries and validations) in one behaviour
MaxTime     == 1    \* readings of datetime.utcnow(): 0..MaxTime

Threads == 1..NumThreads
Times   == 0..MaxTime

\* ---------------------------------------------------------- input domains
None == "null"                          \* Python's None / a missing field

CustomerIds     == {"cus_1", "cus_2"}
SubscriptionIds == {"sub_1", "sub_2"}
Emails          == {"a@x", "bb@x"}

\* customer_details present but null in a checkout session:
\* data_object.get("customer_details", {}) is then None, not the default.
NullDetails == "customer_details:null"

\* stripe.Customer.retrieve raises (the API call fails).
LookupFailed == "retrieve:error"

\* Python truthiness of an optional string: None and "" are false.
Truthy(x) == x # None /\ x # ""

\* ------------------------------------------------------------ file format
\* json.dump(data, f, indent=2): "{}" for an empty mapping, otherwise
\* "{\n" + entries joined by ",\n" + "\n}".  An entry is the quoted key,
\* the six quoted fields and their framing.
EmptyJsonLen  == 2
KeyLen        == 23      \* PIA-USER-XXXX-XXXX-XXXX
TimestampLen  == 26      \* datetime.isoformat() with microseconds
EntryFraming  == 143     \* names, quotes, indentation, separators of one entry

EntryLen(info) ==
    KeyLen + EntryFraming + Len(info.email) + Len(info.status)
      + Len(info.stripe_customer) + Len(info.stripe_subscription)
      + 2 * TimestampLen

RECURSIVE JsonLen(_)
JsonLen(licenses) ==
    IF licenses = <<>> THEN EmptyJsonLen
    ELSE EntryLen(Head(licenses)) + JsonLen(Tail(licenses))

\* The bytes of licenses.json: absent, or present with `size` bytes that
\* either parse as the mapping `data` (ok) or do not parse (~ok).
NoFile      == [exists |-> FALSE, ok |-> FALSE, data |-> <<>>, size |-> 0]
Truncated   == [exists |-> TRUE,  ok |-> FALSE, data |-> <<>>, size |-> 0]
Garbled(n)  == [exists |-> TRUE,  ok |-> FALSE, data |-> <<>>, size |-> n]
JsonFile(d) == [exists |-> TRUE,  ok |-> TRUE,  data |-> d, size |-> JsonLen(d)]

\* ------------------------------------------------------------------ state
VARIABLES
    disk,        \* licenses.json
    now,         \* the latest reading of datetime.utcnow() any handler took
    nev,         \* requests received so far
    pc,          \* per thread: "idle", "save", "dump", "done"
    req,         \* per thread: the request being handled
    loaded,      \* per thread: what load_licenses() returned
    licenses,    \* per thread: the local mapping, after the handler's edits
    result,      \* per thread: activate's return value and the HTTP response
    hist,        \* the last two store calls (and dropped activations) of
                 \* returned handlers, oldest first
    committed    \* the mapping last written to the file in full

vars == <<disk, now, nev, pc, req, loaded, licenses, result, hist, committed>>

\* ------------------------------------------------- storage helpers (pure)
\* load_licenses(): a missing file and a file that does not parse both
\* yield the empty mapping.
load_licenses(d) ==
    IF ~d.exists THEN <<>>
    ELSE IF d.ok THEN d.data
    ELSE <<>>

\* generate_license_key(email) at clock reading t: the first twelve hex
\* digits of SHA-256(email + "-" + isoformat(t)) behind a fixed prefix.  The
\* digest is a function of (email, t) alone; it is kept as that pair, so two
\* keys are equal exactly when email and clock reading are.
generate_license_key(customer_email, t) ==
    <<"PIA-USER", customer_email, ToString(t)>>

NoKey == <<>>

\* A mapping is a Python dict, which keeps insertion order: a sequence of
\* entries with distinct keys.
KeysOf(d) == {d[i].key : i \in DOMAIN d}

IndexOfKey(d, k) ==
    IF \E i \in DOMAIN d : d[i].key = k
    THEN CHOOSE i \in DOMAIN d : d[i].key = k
    ELSE 0

\* d[k] = info: replaces in place, or appends a new entry.
DictSet(d, k, info) ==
    LET i == IndexOfKey(d, k)
        e == [key |-> k] @@ info
    IN  IF i = 0 THEN Append(d, e) ELSE [d EXCEPT ![i] = e]

\* ExistingKey without the lookup: no entry is ever recognised.
ExistingKey_NoLookup(d, customer_id) == NoKey

\* The loop of activate_license_for_subscription: the key of the first
\* entry, in iteration order, whose stripe_customer is customer_id.
ExistingKey(d, customer_id) ==
    LET hits == {i \in DOMAIN d : d[i].stripe_customer = customer_id}
    IN  IF hits = {} THEN NoKey
        ELSE d[CHOOSE i \in hits : \A j \in hits : i <= j].key

\* activate_license_for_subscription that keeps the subscription id an
\* existing entry carries.
activate_license_for_subscription_KeepsSubscription(d, customer_email, customer_id, subscription_id, t) ==
    LET existing_key == ExistingKey(d, customer_id)
        license_key  == IF existing_key # NoKey THEN existing_key
                        ELSE generate_license_key(customer_email, t)
        info == [email               |-> customer_email,
                 status              |-> "active",
                 stripe_customer     |-> customer_id,
                 stripe_subscription |->
                     IF existing_key # NoKey
                     THEN d[IndexOfKey(d, existing_key)].stripe_subscription
                     ELSE subscription_id,
                 created             |-> t,
                 updated             |-> t]
    IN  [licenses |-> DictSet(d, license_key, info), key |-> license_key]

\* activate_license_for_subscription on the mapping d at clock reading t:
\* the mapping that is saved and the key that is returned.
activate_license_for_subscription(d, customer_email, customer_id, subscription_id, t) ==
    LET existing_key == ExistingKey(d, customer_id)
        license_key  == IF existing_key # NoKey THEN existing_key
                        ELSE generate_license_key(customer_email, t)
        info == [email               |-> customer_email,
                 status              |-> "active",
                 stripe_customer     |-> customer_id,
                 stripe_subscription |-> subscription_id,
                 created             |-> t,
                 updated             |-> t]
    IN  [licenses |-> DictSet(d, license_key, info), key |-> license_key]

\* set_license_status_by_subscription that stamps the matching entries
\* but leaves their status.
set_license_status_by_subscription_StampOnly(d, subscription_id, new_status, t) ==
    [licenses |-> [i \in DOMAIN d |->
                     IF d[i].stripe_subscription = subscription_id
                     THEN [d[i] EXCEPT !.updated = t]
                     ELSE d[i]],
     changed  |-> \E i \in DOMAIN d : d[i].stripe_subscription = subscription_id]

\* set_license_status_by_subscription without the comparison of
\* stripe_subscription: every entry is taken for a match.
set_license_status_by_subscription_AnyEntry(d, subscription_id, new_status, t) ==
    [licenses |-> [i \in DOMAIN d |-> [d[i] EXCEPT !.status = new_status, !.updated = t]],
     changed  |-> d # <<>>]

\* set_license_status_by_subscription that stops at the first match.
set_license_status_by_subscription_FirstOnly(d, subscription_id, new_status, t) ==
    [licenses |-> [i \in DOMAIN d |->
                     IF /\ d[i].stripe_subscription = subscription_id
                        /\ \A j \in 1..(i - 1) :
                               d[j].stripe_subscription # subscription_id
                     THEN [d[i] EXCEPT !.status = new_status, !.updated = t]
                     ELSE d[i]],
     changed  |-> \E i \in DOMAIN d : d[i].stripe_subscription = subscription_id]

\* set_license_status_by_subscription with an ordering guard: an entry
\* that is canceled stays canceled.
set_license_status_by_subscription_CanceledSticks(d, subscription_id, new_status, t) ==
    [licenses |-> [i \in DOMAIN d |->
                     IF /\ d[i].stripe_subscription = subscription_id
                        /\ d[i].status # "canceled"
                     THEN [d[i] EXCEPT !.status = new_status, !.updated = t]
                     ELSE d[i]],
     changed  |-> \E i \in DOMAIN d :
                     /\ d[i].stripe_subscription = subscription_id
                     /\ d[i].status # "canceled"]

\* set_license_status_by_subscription on the mapping d at clock reading t:
\* the edited mapping and whether any entry matched (changed).
set_license_status_by_subscription(d, subscription_id, new_status, t) ==
    [licenses |-> [i \in DOMAIN d |->
                     IF d[i].stripe_subscription = subscription_id
                     THEN [d[i] EXCEPT !.status = new_status, !.updated = t]
                     ELSE d[i]],
     changed  |-> \E i \in DOMAIN d : d[i].stripe_subscription = subscription_id]

\* ------------------------------------------------------- webhook routing
\* A delivery as stripe_webhook sees it: whether construct_event accepted
\* the signature, event["type"], the fields of event["data"]["object"] the
\* handler reads (None when absent), and what stripe.Customer.retrieve
\* answers for the customer's email (lookup).  email is NullDetails when
\* customer_details is null, lookup is LookupFailed when the call raises.
Ev(verified, type, customer, subscription, email, id, status, lookup) ==
    [verified |-> verified, type |-> type, customer |-> customer,
     subscription |-> subscription, email |-> email, id |-> id,
     status |-> status, lookup |-> lookup]

NoEvent == Ev(FALSE, None, None, None, None, None, None, None)

Opt(S) == S \cup {None}

ProviderStatuses ==
    {"active", "trialing", "past_due", "unpaid", "canceled",
     "incomplete_expired", "incomplete", "paused"}

InvoiceTypes ==
    {"invoice.payment_succeeded", "invoice_payment.paid", "invoice.payment_failed"}

\* The deliveries tried: every event type with each of its fields present
\* in every combination of values, and with each required field missing in
\* turn; one event type the handler does not know; one bad signature.
Events ==
    {Ev(TRUE, "checkout.session.completed", c, s, e, None, None, None) :
        c \in CustomerIds, s \in SubscriptionIds, e \in Emails}
    \cup {Ev(TRUE, "checkout.session.completed", None, "sub_1", "a@x", None, None, None),
          Ev(TRUE, "checkout.session.completed", "cus_1", None, "a@x", None, None, None),
          Ev(TRUE, "checkout.session.completed", "cus_1", "sub_1", None, None, None, None),
          Ev(TRUE, "checkout.session.completed", "cus_1", "sub_1", NullDetails, None, None, None)}
    \cup {Ev(TRUE, ty, None, s, None, None, None, None) :
        ty \in InvoiceTypes, s \in Opt(SubscriptionIds)}
    \cup {Ev(TRUE, "customer.subscription.created", c, None, None, i, None, l) :
        c \in CustomerIds, i \in SubscriptionIds, l \in Emails}
    \cup {Ev(TRUE, "customer.subscription.created", None, None, None, "sub_1", None, "a@x"),
          Ev(TRUE, "customer.subscription.created", "cus_1", None, None, None, None, "a@x"),
          Ev(TRUE, "customer.subscription.created", "cus_1", None, None, "sub_1", None, None),
          Ev(TRUE, "customer.subscription.created", "cus_1", None, None, "sub_1", None, LookupFailed)}
    \cup {Ev(TRUE, "customer.subscription.updated", None, None, None, i, st, None) :
        i \in SubscriptionIds, st \in ProviderStatuses}
    \cup {Ev(TRUE, "customer.subscription.updated", None, None, None, None, "active", None),
          Ev(TRUE, "customer.subscription.updated", None, None, None, "sub_1", None, None)}
    \cup {Ev(TRUE, "customer.subscription.deleted", None, None, None, i, None, None) :
        i \in Opt(SubscriptionIds)}
    \cup {Ev(TRUE, "charge.refunded", None, None, None, None, None, None),
          Ev(FALSE, "checkout.session.completed", "cus_1", "sub_1", "a@x", None, None, None)}

\* What a handler does to the store: one call, or none.
Call(fn, email, customer, subscription, status) ==
    [fn |-> fn, email |-> email, customer |-> customer,
     subscription |-> subscription, status |-> status]

NoCall == Call("none", None, None, None, None)

Activate(email, customer, subscription) ==
    Call("activate", email, customer, subscription, "active")

SetStatus(subscription, status) ==
    Call("set_status", None, None, subscription, status)

\* MapProviderStatus with "unpaid" taken for a cancellation.
MapProviderStatus_UnpaidCancels(status) ==
    IF status \in {"active", "trialing"} THEN "active"
    ELSE IF status \in {"past_due"} THEN "past_due"
    ELSE IF status \in {"canceled", "incomplete_expired", "unpaid"} THEN "canceled"
    ELSE None

\* The status branch of customer.subscription.updated.
MapProviderStatus(status) ==
    IF status \in {"active", "trialing"} THEN "active"
    ELSE IF status \in {"past_due", "unpaid"} THEN "past_due"
    ELSE IF status \in {"canceled", "incomplete_expired"} THEN "canceled"
    ELSE None

\* The handler raises before it reaches a store call: .get("email") on the
\* None of a null customer_details (line 118), or the exception of
\* stripe.Customer.retrieve (line 152), which no except clause catches.
Raises(ev) ==
    \/ ev.type = "checkout.session.completed" /\ ev.email = NullDetails
    \/ /\ ev.type = "customer.subscription.created"
       /\ Truthy(ev.customer) /\ ev.lookup = LookupFailed

\* 1) checkout.session.completed
RouteCheckout(ev) ==
    IF Truthy(ev.customer) /\ Truthy(ev.subscription) /\ Truthy(ev.email)
    THEN Activate(ev.email, ev.customer, ev.subscription)
    ELSE NoCall

\* RouteInvoice without branch 2b: the new event name is not handled.
RouteInvoice_OldNameOnly(ev) ==
    IF ev.type = "invoice.payment_succeeded" THEN
        IF Truthy(ev.subscription) THEN SetStatus(ev.subscription, "active")
        ELSE NoCall
    ELSE IF ev.type = "invoice.payment_failed" THEN
        IF Truthy(ev.subscription) THEN SetStatus(ev.subscription, "past_due")
        ELSE NoCall
    ELSE NoCall

\* 2) invoice.payment_succeeded, 2b) invoice_payment.paid,
\* 3) invoice.payment_failed
RouteInvoice(ev) ==
    IF ev.type = "invoice.payment_succeeded" THEN
        IF Truthy(ev.subscription) THEN SetStatus(ev.subscription, "active")
        ELSE NoCall
    ELSE IF ev.type = "invoice_payment.paid" THEN
        IF Truthy(ev.subscription) THEN SetStatus(ev.subscription, "active")
        ELSE NoCall
    ELSE IF ev.type = "invoice.payment_failed" THEN
        IF Truthy(ev.subscription) THEN SetStatus(ev.subscription, "past_due")
        ELSE NoCall
    ELSE NoCall

\* RouteCreated without the test of the email: the call is made with
\* whatever the lookup gave.
RouteCreated_AnyEmail(ev) ==
    IF Truthy(ev.customer)
    THEN IF Truthy(ev.id)
         THEN Activate(ev.lookup, ev.customer, ev.id)
         ELSE NoCall
    ELSE NoCall

\* 4) customer.subscription.created: the email comes from
\* stripe.Customer.retrieve, asked only when the customer id is present.
RouteCreated(ev) ==
    IF Truthy(ev.customer)
    THEN IF Truthy(ev.lookup) /\ Truthy(ev.id)
         THEN Activate(ev.lookup, ev.customer, ev.id)
         ELSE NoCall
    ELSE NoCall

\* 5) customer.subscription.updated
RouteUpdated(ev) ==
    IF Truthy(ev.id) /\ Truthy(ev.status) /\ MapProviderStatus(ev.status) # None
    THEN SetStatus(ev.id, MapProviderStatus(ev.status))
    ELSE NoCall

\* 6) customer.subscription.deleted
RouteDeleted(ev) ==
    IF Truthy(ev.id) THEN SetStatus(ev.id, "canceled") ELSE NoCall

\* The if/elif chain of stripe_webhook on a verified event.
Route(ev) ==
    IF ev.type = "checkout.session.completed" THEN RouteCheckout(ev)
    ELSE IF ev.type \in InvoiceTypes THEN RouteInvoice(ev)
    ELSE IF ev.type = "customer.subscription.created" THEN RouteCreated(ev)
    ELSE IF ev.type = "customer.subscription.updated" THEN RouteUpdated(ev)
    ELSE IF ev.type = "customer.subscription.deleted" THEN RouteDeleted(ev)
    ELSE NoCall

\* The mapping a call leaves in the handler's local `licenses`, from the
\* mapping d it loaded, at clock reading t.
Apply(call, d, t) ==
    IF call.fn = "activate"
    THEN activate_license_for_subscription(
             d, call.email, call.customer, call.subscription, t).licenses
    ELSE IF call.fn = "set_status"
    THEN set_license_status_by_subscription(d, call.subscription, call.status, t).licenses
    ELSE d

\* Whether the call reaches save_licenses.
Saves(call, d) ==
    \/ call.fn = "activate"
    \/ /\ call.fn = "set_status"
       /\ set_license_status_by_subscription(d, call.subscription, call.status, 0).changed

\* ------------------------------------------------------------- validation
Whitespace == {" ", "\t"}

\* str.strip(): drops the leading and the trailing whitespace characters.
RECURSIVE LStrip(_)
LStrip(s) ==
    IF s # <<>> /\ Head(s) \in Whitespace THEN LStrip(Tail(s)) ELSE s

RECURSIVE RStrip(_)
RStrip(s) ==
    IF s # <<>> /\ s[Len(s)] \in Whitespace
    THEN RStrip(SubSeq(s, 1, Len(s) - 1)) ELSE s

\* Strip that leaves the trailing whitespace.
Strip_LeftOnly(s) == LStrip(s)

Strip(s) == RStrip(LStrip(s))

\* An HTTP response: the code, the JSON body's status and reason, and (for
\* bookkeeping of activate's return value) the key.
Response(code, status, reason) == [code |-> code, status |-> status, reason |-> reason]

NoResponse == Response(0, None, None)
Ack        == Response(200, "received", None)
Rejected   == Response(400, None, None)
\* Flask's answer when the view function raises.
ServerError == Response(500, None, None)

\* validate_license on the raw `key` query parameter, reading the mapping d.
validate_license(raw, d) ==
    LET license_key == Strip(raw)
        i           == IndexOfKey(d, license_key)
    IN  IF license_key = <<>> THEN Response(400, "invalid", "missing_key")
        ELSE IF i = 0 THEN Response(200, "invalid", None)
        ELSE Response(200, d[i].status, None)

\* The raw query parameters tried: every key the generator can produce and
\* the empty string, bare and padded with whitespace.
PossibleKeys == {generate_license_key(e, t) : e \in Emails, t \in Times}

RawKeys ==
    LET cores == PossibleKeys \cup {<<>>, <<"PIA-USER", "zz@x", "0">>}
    IN  cores \cup {<<" ">> \o k \o <<"\t">> : k \in cores}

\* ---------------------------------------------------------------- threads
\* A request: a webhook delivery (ev) or a GET /validate (raw key).
WebhookReq(ev)   == [kind |-> "webhook",  ev |-> ev,      raw |-> <<>>]
ValidateReq(raw) == [kind |-> "validate", ev |-> NoEvent, raw |-> raw]
NoReq            == [kind |-> "none",     ev |-> NoEvent, raw |-> <<>>]

Result(key, resp) == [key |-> key, resp |-> resp]
NoResult == Result(NoKey, NoResponse)

\* A completed store call: the call and the key activate returned.
Done(call, key) == [call |-> call, key |-> key]
NoDone == Done(NoCall, NoKey)

Push(h, d) == <<h[2], d>>

\* The call thread t is carrying out (NoCall for a rejected delivery and
\* for a handler that raises before the call).
CallOfEvent(ev) == IF ev.verified /\ ~Raises(ev) THEN Route(ev) ELSE NoCall

\* The response to a delivery that makes no store call.
AnswerOf(ev) ==
    IF ~ev.verified THEN Rejected
    ELSE IF Raises(ev) THEN ServerError
    ELSE Ack
CallOf(t) == IF req[t].kind = "webhook" THEN CallOfEvent(req[t].ev) ELSE NoCall

\* customer.subscription.created for a customer whose record at the
\* provider has no email: the handler makes no call (line 154).
Dropped(ev) ==
    /\ ev.verified /\ ev.type = "customer.subscription.created"
    /\ Truthy(ev.customer) /\ ev.lookup # LookupFailed /\ ~Truthy(ev.lookup)

Drop(customer) == Call("drop", None, customer, None, None)

\* What a returning handler leaves in the record of completed calls.
DoneOf(t) ==
    IF CallOf(t).fn # "none" THEN Done(CallOf(t), result[t].key)
    ELSE IF req[t].kind = "webhook" /\ Dropped(req[t].ev)
    THEN Done(Drop(req[t].ev.customer), NoKey)
    ELSE NoDone

\* The key activate returns to its caller.
KeyOfCall(call, d, t) ==
    IF call.fn = "activate"
    THEN activate_license_for_subscription(
             d, call.email, call.customer, call.subscription, t).key
    ELSE NoKey

Quiet == \A u \in Threads : pc[u] = "idle"

Init ==
    /\ disk = NoFile
    /\ now = 0
    /\ nev = 0
    /\ pc = [t \in Threads |-> "idle"]
    /\ req = [t \in Threads |-> NoReq]
    /\ loaded = [t \in Threads |-> <<>>]
    /\ licenses = [t \in Threads |-> <<>>]
    /\ result = [t \in Threads |-> NoResult]
    /\ hist = <<NoDone, NoDone>>
    /\ committed = <<>>

\* The readings datetime.utcnow() can return to a request that arrives
\* now: the reading the previous request got, or a later one.
ClockReadings == {t \in Times : t = now \/ t = now + 1}

\* A request goes to a free thread; the threads are interchangeable, so to
\* the first free one.  It is taken up once the handlers that have finished
\* have returned (Return touches nothing but its own thread).
Free(t) ==
    /\ pc[t] = "idle"
    /\ \A u \in Threads : pc[u] # "done" /\ (u < t => pc[u] # "idle")

\* POST /webhook up to the handler's save_licenses: construct_event, the
\* dispatch on event["type"], load_licenses and the edit of the local
\* mapping.  A rejected delivery, a handler that raises, an event routed to
\* nothing and a status update that matches no entry finish here.
Webhook(t) ==
    /\ Free(t)
    /\ nev < MaxRequests
    /\ \E ev \in Events, clock \in ClockReadings :
         LET call == CallOfEvent(ev)
             d    == load_licenses(disk)
         IN  /\ req' = [req EXCEPT ![t] = WebhookReq(ev)]
             /\ IF call.fn = "none"
                THEN /\ result' = [result EXCEPT ![t] = Result(NoKey, AnswerOf(ev))]
                     /\ pc' = [pc EXCEPT ![t] = "done"]
                     /\ UNCHANGED <<loaded, licenses, now>>
                ELSE /\ now' = clock
                     /\ loaded' = [loaded EXCEPT ![t] = d]
                     /\ licenses' = [licenses EXCEPT ![t] = Apply(call, d, clock)]
                     /\ IF Saves(call, d)
                        THEN /\ pc' = [pc EXCEPT ![t] = "save"]
                             /\ result' = [result EXCEPT ![t] =
                                    Result(KeyOfCall(call, d, clock), NoResponse)]
                        ELSE /\ pc' = [pc EXCEPT ![t] = "done"]
                             /\ result' = [result EXCEPT ![t] = Result(NoKey, Ack)]
    /\ nev' = nev + 1
    /\ UNCHANGED <<disk, hist, committed>>

\* save_licenses, first half: open(LICENSES_FILE, "w") truncates the file.
SaveOpen(t) ==
    /\ pc[t] = "save"
    /\ disk' = Truncated
    /\ pc' = [pc EXCEPT ![t] = "dump"]
    /\ UNCHANGED <<now, nev, req, loaded, licenses, result, hist, committed>>

\* save_licenses, second half: json.dump and the close of the file write
\* the text at offset 0 of this thread's file object.  Bytes another writer
\* put beyond the end of this text stay in the file.
SaveDump(t) ==
    /\ pc[t] = "dump"
    /\ disk' = IF JsonLen(licenses[t]) >= disk.size
               THEN JsonFile(licenses[t])
               ELSE Garbled(disk.size)
    /\ committed' = IF JsonLen(licenses[t]) >= disk.size
                    THEN licenses[t]
                    ELSE committed
    /\ pc' = [pc EXCEPT ![t] = "done"]
    /\ result' = [result EXCEPT ![t] = Result(result[t].key, Ack)]
    /\ UNCHANGED <<now, nev, req, loaded, licenses, hist>>

\* The handler has returned; the thread is free for the next request.  A
\* store call it made, or the activation it dropped, joins the record of
\* completed calls.
Return(t) ==
    /\ pc[t] = "done"
    /\ pc' = [pc EXCEPT ![t] = "idle"]
    /\ req' = [req EXCEPT ![t] = NoReq]
    /\ loaded' = [loaded EXCEPT ![t] = <<>>]
    /\ licenses' = [licenses EXCEPT ![t] = <<>>]
    /\ result' = [result EXCEPT ![t] = NoResult]
    /\ hist' = IF DoneOf(t) = NoDone THEN hist ELSE Push(hist, DoneOf(t))
    /\ UNCHANGED <<disk, now, nev, committed>>

\* GET /validate: one load_licenses and the lookup.
Validate(t) ==
    /\ Free(t)
    /\ nev < MaxRequests
    /\ nev' = nev + 1
    /\ \E raw \in RawKeys :
         /\ req' = [req EXCEPT ![t] = ValidateReq(raw)]
         /\ loaded' = [loaded EXCEPT ![t] = load_licenses(disk)]
         /\ result' = [result EXCEPT ![t] =
                Result(Strip(raw), validate_license(raw, load_licenses(disk)))]
    /\ pc' = [pc EXCEPT ![t] = "done"]
    /\ UNCHANGED <<disk, now, licenses, hist, committed>>

Next ==
    \E t \in Threads :
         Webhook(t) \/ SaveOpen(t) \/ SaveDump(t) \/ Return(t) \/ Validate(t)

Spec == Init /\ [][Next]_vars

\* One request at a time: a request starts only when no thread is busy.
SeqNext ==
    \E t \in Threads :
         \/ Quiet /\ Webhook(t)
         \/ Quiet /\ Validate(t)
         \/ SaveOpen(t) \/ SaveDump(t) \/ Return(t)

SeqSpec == Init /\ [][SeqNext]_vars

\* save_licenses fails at open(LICENSES_FILE, "w") (the file cannot be
\* opened for writing): the exception leaves the handler, Flask answers
\* 500, the file is untouched.
SaveOpenFails(t) ==
    /\ pc[t] = "save"
    /\ pc' = [pc EXCEPT ![t] = "done"]
    /\ result' = [result EXCEPT ![t] = Result(NoKey, ServerError)]
    /\ UNCHANGED <<disk, now, nev, req, loaded, licenses, hist, committed>>

\* save_licenses fails after the open: the one write of the buffered text,
\* at the close of the file, raises (disk full, I/O error) and puts nothing
\* in the file open() has truncated.
SaveDumpFails(t) ==
    /\ pc[t] = "dump"
    /\ pc' = [pc EXCEPT ![t] = "done"]
    /\ result' = [result EXCEPT ![t] = Result(NoKey, ServerError)]
    /\ UNCHANGED <<disk, now, nev, req, loaded, licenses, hist, committed>>

\* One request at a time, on a disk whose writes can fail.
FaultNext ==
    \E t \in Threads :
         \/ Quiet /\ Webhook(t)
         \/ Quiet /\ Validate(t)
         \/ SaveOpen(t) \/ SaveDump(t) \/ Return(t)
         \/ SaveOpenFails(t) \/ SaveDumpFails(t)

FaultSpec == Init /\ [][FaultNext]_vars

\* ----------------------------------------------------------------- views
\* The mapping the program sees in the file.
Store == load_licenses(disk)

Records(d) == {d[i] : i \in DOMAIN d}

OfCustomer(d, c) == {i \in DOMAIN d : d[i].stripe_customer = c}

OfSubscription(d, s) == {i \in DOMAIN d : d[i].stripe_subscription = s}

CustomersOf(d) == {d[i].stripe_customer : i \in DOMAIN d}

\* Thread t has finished a webhook request that made the store call `fn`.
Finished(t, fn) == pc[t] = "done" /\ CallOf(t).fn = fn

\* ------------------------------------------------------------------ claims

\* C1: handled one at a time, activation events leave one record per
\* customer that has activated: after an activation for customer c the store
\* holds at most one record per customer, its customers are those it had
\* before plus c, with as many records as customers, and the records of the
\* other customers are the ones that were there before.
C1_OneRecordPerCustomer ==
    \A t \in Threads :
        Finished(t, "activate") =>
            LET d == loaded[t]
                c == CallOf(t).customer
            IN  /\ \A x \in CustomerIds : Cardinality(OfCustomer(Store, x)) <= 1
                /\ CustomersOf(Store) = CustomersOf(d) \cup {c}
                /\ Len(Store) = Cardinality(CustomersOf(d) \cup {c})
                /\ \A i \in DOMAIN d :
                       d[i].stripe_customer # c => d[i] \in Records(Store)

\* C2: activate is idempotent per customer.  When the store call before
\* this one was an activation of the same customer, this activation returns
\* the key that one returned, and the store holds exactly one record for the
\* customer: under that key, active, with the email of this call.
C2_ActivateIdempotent ==
    \A t \in Threads :
        (Finished(t, "activate") /\ hist[2].call.fn = "activate"
            /\ hist[2].call.customer = CallOf(t).customer) =>
            LET c == CallOf(t).customer
                hits == OfCustomer(Store, c)
            IN  /\ result[t].key = hist[2].key
                /\ Cardinality(hits) = 1
                /\ \A i \in hits :
                       /\ Store[i].key = hist[2].key
                       /\ Store[i].email = CallOf(t).email
                       /\ Store[i].status = "active"

\* C2 witness: a customer activated twice in a row with different emails.
C2_Witness ==
    \E t \in Threads :
        /\ Finished(t, "activate")
        /\ hist[2].call.fn = "activate"
        /\ hist[2].call.customer = CallOf(t).customer
        /\ hist[2].call.email # CallOf(t).email
        /\ now > 0

\* C3: a "checkout completed" and a "subscription created" handler for the
\* same customer, unknown to both when they loaded the store, run
\* concurrently; when both have finished the store holds exactly one record
\* for the customer.
C3_ConcurrentActivationOneRecord ==
    \A t1, t2 \in Threads :
        (/\ t1 # t2
         /\ Finished(t1, "activate") /\ Finished(t2, "activate")
         /\ req[t1].ev.type = "checkout.session.completed"
         /\ req[t2].ev.type = "customer.subscription.created"
         /\ CallOf(t1).customer = CallOf(t2).customer
         /\ OfCustomer(loaded[t1], CallOf(t1).customer) = {}
         /\ OfCustomer(loaded[t2], CallOf(t1).customer) = {}) =>
            Cardinality(OfCustomer(Store, CallOf(t1).customer)) = 1

\* The store the first of two overlapping handlers loaded: the other one
\* loaded the same, or the empty mapping of a file being rewritten.
BaseOf(t1, t2) == IF loaded[t1] = <<>> THEN loaded[t2] ELSE loaded[t1]

\* C4: no lost update.  When an activation and a status update that target
\* one customer's record have run concurrently, the store is what the two
\* calls leave when run one after the other, in one order or the other (at
\* some clock readings).
C4_NoLostUpdate ==
    \A t1, t2 \in Threads :
        (/\ t1 # t2
         /\ Finished(t1, "activate") /\ Finished(t2, "set_status")
         /\ \E i \in DOMAIN BaseOf(t1, t2) :
                /\ BaseOf(t1, t2)[i].stripe_customer = CallOf(t1).customer
                /\ BaseOf(t1, t2)[i].stripe_subscription = CallOf(t2).subscription) =>
            \E u1, u2 \in Times :
                \/ Store = Apply(CallOf(t2), Apply(CallOf(t1), BaseOf(t1, t2), u1), u2)
                \/ Store = Apply(CallOf(t1), Apply(CallOf(t2), BaseOf(t1, t2), u2), u1)

\* C5: records are never removed and keys never change.  Every record of
\* the mapping last written in full is, by key and customer, in the mapping
\* written next, and a customer that had a record gets no other key.
C5_RecordsNeverRemoved ==
    [][ /\ \A i \in DOMAIN committed : \E j \in DOMAIN committed' :
               /\ committed'[j].key = committed[i].key
               /\ committed'[j].stripe_customer = committed[i].stripe_customer
        /\ \A j \in DOMAIN committed' :
               OfCustomer(committed, committed'[j].stripe_customer) # {} =>
                   \E i \in OfCustomer(committed, committed'[j].stripe_customer) :
                       committed[i].key = committed'[j].key ]_vars

\* The request reads the file: a validation, or a webhook routed to a call.
Reads(r) == r.kind = "validate" \/ (r.kind = "webhook" /\ CallOfEvent(r.ev).fn # "none")

\* C6: store writes are atomic for readers.  A load returns the mapping
\* last written in full or the mapping a save in progress is writing,
\* never an empty or partial one.
C6_AtomicLoad ==
    [][ \A t \in Threads :
            (pc[t] = "idle" /\ pc'[t] # "idle" /\ Reads(req'[t])) =>
                \/ loaded'[t] = committed
                \/ \E u \in Threads : pc[u] = "dump" /\ loaded'[t] = licenses[u] ]_vars

\* C7: activate preserves createdAt.  After an activation of a customer
\* who had a record, the record's created is the one it had; after an
\* activation of a new customer, created is the handler's clock reading.
C7_CreatedPreserved ==
    \A t \in Threads :
        Finished(t, "activate") =>
            LET c == CallOf(t).customer
                before == OfCustomer(loaded[t], c)
            IN  \A i \in OfCustomer(Store, c) :
                    IF before = {} THEN Store[i].created = now
                    ELSE \E j \in before : Store[i].created = loaded[t][j].created

\* C8: validation round trip.  A validation of the key the preceding
\* activation returned answers "active"; once that activation has been
\* followed by a cancellation of the subscription it named, a validation of
\* the key answers "canceled".
C8_ValidationRoundTrip ==
    \A t \in Threads :
        (pc[t] = "done" /\ req[t].kind = "validate") =>
            /\ (hist[2].call.fn = "activate" /\ result[t].key = hist[2].key) =>
                   result[t].resp = Response(200, "active", None)
            /\ (/\ hist[1].call.fn = "activate"
                /\ hist[2].call = SetStatus(hist[1].call.subscription, "canceled")
                /\ result[t].key = hist[1].key) =>
                   result[t].resp = Response(200, "canceled", None)

\* C8 witness: a key validated after its activation and the cancellation of
\* its subscription.
C8_Witness ==
    \E t \in Threads :
        /\ pc[t] = "done" /\ req[t].kind = "validate"
        /\ hist[1].call.fn = "activate"
        /\ hist[2].call = SetStatus(hist[1].call.subscription, "canceled")
        /\ result[t].key = hist[1].key
        /\ result[t].resp.status = "canceled"

\* The mapping d with the status of every record of subscription s set to
\* st (stamped u); d itself when st is None.
WithStatus(d, s, st, u) ==
    IF st = None THEN d
    ELSE [i \in DOMAIN d |->
            IF d[i].stripe_subscription = s
            THEN [d[i] EXCEPT !.status = st, !.updated = u]
            ELSE d[i]]

\* In this step thread t finishes handling a verified event of type ty.
Completes(t, ty) ==
    /\ pc[t] # "done" /\ pc'[t] = "done"
    /\ req'[t].kind = "webhook" /\ req'[t].ev.verified /\ req'[t].ev.type = ty

\* The store the handler finishing in this step started from.
Before(t) == IF pc[t] = "idle" THEN Store ELSE loaded[t]

\* The table of section 4.3 for "subscription updated".
C9_Table(status) ==
    CASE status \in {"active", "trialing"} -> "active"
      [] status \in {"past_due", "unpaid"} -> "past_due"
      [] status \in {"canceled", "incomplete_expired"} -> "canceled"
      [] OTHER -> None

\* C9: a "subscription updated" event on a subscription that has a record
\* stores the status the table gives for the provider status, and leaves
\* the store as it was for every other provider status.
C9_UpdatedStatusMapping ==
    [][ \A t \in Threads :
            (/\ Completes(t, "customer.subscription.updated")
             /\ OfSubscription(Before(t), req'[t].ev.id) # {}) =>
                \E u \in Times :
                    Store' = WithStatus(Before(t), req'[t].ev.id,
                                        C9_Table(req'[t].ev.status), u) ]_vars

\* C9 witness: an "unpaid" update has set a record to past_due.
C9_Witness ==
    \E t \in Threads :
        /\ pc[t] = "done" /\ req[t].kind = "webhook"
        /\ req[t].ev.type = "customer.subscription.updated"
        /\ req[t].ev.status = "unpaid"
        /\ \E i \in OfSubscription(loaded[t], req[t].ev.id) :
               loaded[t][i].status = "active" /\ Store[i].status = "past_due"

\* The status the event-to-action table gives for the event type.
C10_Table(ty) ==
    CASE ty \in {"invoice.payment_succeeded", "invoice_payment.paid"} -> "active"
      [] ty = "invoice.payment_failed" -> "past_due"
      [] ty = "customer.subscription.deleted" -> "canceled"

\* The subscription id the event type carries.
C10_Subscription(ev) ==
    IF ev.type = "customer.subscription.deleted" THEN ev.id ELSE ev.subscription

\* C10: with the subscription id present, payment succeeded (under either
\* name) sets the records of the subscription to active, payment failed to
\* past_due and subscription deleted to canceled, and nothing else changes.
\* The two names of payment succeeded then have the same effect.
C10_InvoiceAndDeleted ==
    [][ \A t \in Threads :
        \A ty \in InvoiceTypes \cup {"customer.subscription.deleted"} :
            (Completes(t, ty) /\ C10_Subscription(req'[t].ev) # None) =>
                \E u \in Times :
                    Store' = WithStatus(Before(t), C10_Subscription(req'[t].ev),
                                        C10_Table(ty), u) ]_vars

\* C10 witness: the new name of payment succeeded has reactivated a record.
C10_Witness ==
    \E t \in Threads :
        /\ pc[t] = "done" /\ req[t].kind = "webhook"
        /\ req[t].ev.type = "invoice_payment.paid"
        /\ \E i \in OfSubscription(loaded[t], req[t].ev.subscription) :
               loaded[t][i].status # "active" /\ Store[i].status = "active"

\* C11: a status update whose subscription id matches no record of the
\* store it loaded leaves the store as it was and is acknowledged, for
\* every new status and every store, the empty one of an update that
\* arrives before the activation included.
C11_UnknownSubscriptionNoOp ==
    \A t \in Threads :
        (/\ Finished(t, "set_status")
         /\ OfSubscription(loaded[t], CallOf(t).subscription) = {}) =>
            /\ result[t].resp = Ack
            /\ Store = loaded[t]
            /\ committed = loaded[t]

\* C11 witness: a status update for a subscription no record carries has
\* been acknowledged on a store that holds a record.
C11_Witness ==
    \E t \in Threads :
        /\ Finished(t, "set_status")
        /\ loaded[t] # <<>>
        /\ OfSubscription(loaded[t], CallOf(t).subscription) = {}
        /\ result[t].resp = Ack

\* The event is of a type the handler does not know, or of a known type
\* without one of the fields the event-to-action table requires for it.
C12_Missing(x) == x \in {None, "", NullDetails}

C12_RoutesToNoOp(ev) ==
    CASE ev.type = "checkout.session.completed" ->
             C12_Missing(ev.customer) \/ C12_Missing(ev.subscription)
                 \/ C12_Missing(ev.email)
      [] ev.type \in InvoiceTypes -> C12_Missing(ev.subscription)
      [] ev.type = "customer.subscription.created" ->
             C12_Missing(ev.customer) \/ C12_Missing(ev.id)
      [] ev.type = "customer.subscription.updated" ->
             C12_Missing(ev.id) \/ C12_Missing(ev.status)
      [] ev.type = "customer.subscription.deleted" -> C12_Missing(ev.id)
      [] OTHER -> TRUE

\* C12: every verified event that routes to a no-op (an unknown type, or a
\* known type without one of its required fields) is acknowledged with
\* success and leaves the file as it was.
C12_NoOpAcknowledged ==
    [][ \A t \in Threads :
            (/\ pc[t] # "done" /\ pc'[t] = "done"
             /\ req'[t].kind = "webhook" /\ req'[t].ev.verified
             /\ C12_RoutesToNoOp(req'[t].ev)) =>
                result'[t].resp = Ack /\ disk' = disk ]_vars

\* raw without its leading and trailing whitespace: the stretches of raw
\* with nothing but whitespace on either side that neither start nor end
\* with whitespace (there is exactly one).
C13_Trimmed(raw) ==
    {SubSeq(raw, ab[1], ab[2]) : ab \in
        {xy \in (1..(Len(raw) + 1)) \X (0..Len(raw)) :
            /\ \A i \in 1..Len(raw) :
                   (i < xy[1] \/ i > xy[2]) => raw[i] \in Whitespace
            /\ xy[1] <= xy[2] =>
                   (raw[xy[1]] \notin Whitespace /\ raw[xy[2]] \notin Whitespace)}}

\* C13: a validation trims the key; an empty key is answered 400 with
\* status invalid and reason missing_key, a key that is not in the store
\* 200 with status invalid, a key in the store 200 with the status stored
\* under it; the file is left as it was in all three cases.
C13_QueryStatus ==
    [][ \A t \in Threads :
            (pc[t] = "idle" /\ pc'[t] = "done" /\ req'[t].kind = "validate") =>
                /\ disk' = disk
                /\ C13_Trimmed(req'[t].raw) # {}
                /\ \A k \in C13_Trimmed(req'[t].raw) :
                       IF k = <<>>
                       THEN result'[t].resp = Response(400, "invalid", "missing_key")
                       ELSE IF k \notin KeysOf(Store)
                       THEN result'[t].resp = Response(200, "invalid", None)
                       ELSE \E i \in DOMAIN Store :
                                /\ Store[i].key = k
                                /\ result'[t].resp =
                                       Response(200, Store[i].status, None) ]_vars

\* C13 witness: a key sent with whitespace around it has been answered with
\* the status a status update stored under it.
C13_Witness ==
    \E t \in Threads :
        /\ pc[t] = "done" /\ req[t].kind = "validate"
        /\ req[t].raw # result[t].key
        /\ \E i \in DOMAIN Store :
               /\ Store[i].key = result[t].key
               /\ Store[i].status = "past_due"
        /\ result[t].resp = Response(200, "past_due", None)

\* C14: a file that is there but does not parse is not taken for an empty
\* store.  A validation that reads such a file does not answer "invalid"
\* for a key of the mapping last written in full; an activation that reads
\* it returns the key the customer has in that mapping, if any, and does
\* not prepare a mapping with fewer records for the file.
C14_UnreadableIsNotEmpty ==
    [][ \A t \in Threads :
            (/\ pc[t] = "idle" /\ pc'[t] # "idle" /\ Reads(req'[t])
             /\ disk.exists /\ ~disk.ok) =>
                /\ (req'[t].kind = "validate"
                        /\ result'[t].key \in KeysOf(committed)) =>
                       result'[t].resp # Response(200, "invalid", None)
                /\ (req'[t].kind = "webhook"
                        /\ CallOfEvent(req'[t].ev).fn = "activate") =>
                       LET c == CallOfEvent(req'[t].ev).customer
                       IN  /\ OfCustomer(committed, c) # {} =>
                                  \E i \in OfCustomer(committed, c) :
                                      result'[t].key = committed[i].key
                           /\ Len(licenses'[t]) >= Len(committed) ]_vars

\* C15: when save_licenses fails while an event is handled, the event is
\* not acknowledged with success and the file holds the record set the
\* handler loaded before the event.
C15_FailedWriteKeepsStore ==
    [][ \A t \in Threads :
            (SaveOpenFails(t) \/ SaveDumpFails(t)) =>
                /\ result'[t].resp # Ack
                /\ load_licenses(disk') = loaded[t] ]_vars

C17_StatusUpdateFrame ==
    \A t \in Threads :
        Finished(t, "set_status") =>
            LET d == loaded[t]
                s == CallOf(t).subscription
            IN  /\ Len(Store) = Len(d)
                /\ \A i \in DOMAIN d :
                       /\ Store[i].key = d[i].key
                       /\ Store[i].email = d[i].email
                       /\ Store[i].stripe_customer = d[i].stripe_customer
                       /\ Store[i].stripe_subscription = d[i].stripe_subscription
                       /\ Store[i].created = d[i].created
                       /\ IF d[i].stripe_subscription = s
                          THEN /\ Store[i].status = CallOf(t).status
                               /\ Store[i].updated = now
                          ELSE /\ Store[i].status = d[i].status
                               /\ Store[i].updated = d[i].updated

\* C17 witness: one status update has changed the two records that carry
\* its subscription id, at a later clock reading than they had.
C17_Witness ==
    \E t \in Threads :
        /\ Finished(t, "set_status")
        /\ Cardinality(OfSubscription(loaded[t], CallOf(t).subscription)) = 2
        /\ \A i \in DOMAIN Store :
               /\ Store[i].status = "past_due" /\ loaded[t][i].status = "active"
               /\ Store[i].updated = 1 /\ loaded[t][i].updated = 0

\* The call targets the record: an activation of its customer, or a status
\* update for the subscription id it carries.
C18_Targets(call, r) ==
    \/ call.fn = "activate" /\ call.customer = r.stripe_customer
    \/ call.fn = "set_status" /\ call.subscription = r.stripe_subscription

\* The store calls applied so far, most recent last, when thread t has
\* finished one: the last two of returned handlers and its own.
C18_Applied(t) == <<hist[1].call, hist[2].call, CallOf(t)>>

\* C18: last event wins.  For events handled one at a time, the status of
\* a record is the one set by the most recent applied call that targeted
\* it, whatever was applied before: a status update to active handled after
\* the cancellation of the same subscription leaves the record active.
C18_LastEventWins ==
    \A t \in Threads :
        (pc[t] = "done" /\ CallOf(t).fn # "none") =>
            \A i \in DOMAIN Store :
                LET hits == {k \in 1..3 : C18_Targets(C18_Applied(t)[k], Store[i])}
                IN  hits # {} =>
                        Store[i].status =
                            C18_Applied(t)[CHOOSE k \in hits : \A j \in hits : j <= k].status

\* C18 witness: an invoice.payment_succeeded handled after the activation
\* and the cancellation of its subscription has set the record, canceled
\* when the handler loaded it, back to active.
C18_Witness ==
    \E t \in Threads :
        /\ Finished(t, "set_status")
        /\ req[t].ev.type = "invoice.payment_succeeded"
        /\ hist[1].call.fn = "activate"
        /\ hist[1].call.subscription = CallOf(t).subscription
        /\ hist[2].call = SetStatus(CallOf(t).subscription, "canceled")
        /\ \E i \in OfSubscription(Store, CallOf(t).subscription) :
               loaded[t][i].status = "canceled" /\ Store[i].status = "active"

\* The last two returned store calls activated customer c, first with
\* subscription s1 and then with another subscription s2.
C19_Reactivated(c, s1, s2) ==
    /\ s1 # s2
    /\ hist[1].call.fn = "activate" /\ hist[1].call.customer = c
    /\ hist[1].call.subscription = s1
    /\ hist[2].call.fn = "activate" /\ hist[2].call.customer = c
    /\ hist[2].call.subscription = s2

\* C19: a record follows its current subscription id only.  When an
\* activation of a customer whose record carries subscription s1 names
\* another subscription s2, the record carries s2 afterwards; a status
\* update for s1 handled after it leaves the record as it is, and one for
\* s2 sets its status.
C19_FollowsCurrentSubscription ==
    \A t \in Threads :
        /\ (/\ Finished(t, "activate")
            /\ hist[2].call.fn = "activate"
            /\ hist[2].call.customer = CallOf(t).customer
            /\ hist[2].call.subscription # CallOf(t).subscription) =>
               /\ OfCustomer(Store, CallOf(t).customer) # {}
               /\ \A i \in OfCustomer(Store, CallOf(t).customer) :
                      /\ Store[i].key = hist[2].key
                      /\ Store[i].stripe_subscription = CallOf(t).subscription
        /\ \A c \in CustomerIds, s1, s2 \in SubscriptionIds :
               (pc[t] = "done" /\ CallOf(t).fn = "set_status"
                    /\ C19_Reactivated(c, s1, s2)) =>
                   /\ OfCustomer(Store, c) = OfCustomer(loaded[t], c)
                   /\ OfCustomer(Store, c) # {}
                   /\ \A i \in OfCustomer(Store, c) :
                          /\ Store[i].stripe_subscription = s2
                          /\ CallOf(t).subscription = s1 => Store[i] = loaded[t][i]
                          /\ CallOf(t).subscription = s2 =>
                                 /\ Store[i].status = CallOf(t).status
                                 /\ Store[i].updated = now

\* C19 witness: after the re-activation with another subscription, a
\* cancellation of the first subscription has left the record active.
C19_Witness ==
    \E t \in Threads, c \in CustomerIds, s1, s2 \in SubscriptionIds :
        /\ Finished(t, "set_status")
        /\ C19_Reactivated(c, s1, s2)
        /\ CallOf(t) = SetStatus(s1, "canceled")
        /\ \E i \in OfCustomer(Store, c) :
               Store[i].stripe_subscription = s2 /\ Store[i].status = "active"

====
